---- MODULE Spec2Model ----
(***************************************************************************)
(* Cross-modal search demo of src/script.js: the per-item embedding tasks  *)
(* of processSearchableItems joined by Promise.all, the scoring, sorting   *)
(* and slicing of findBestMatches, and the query loop of runDemo.          *)
(*                                                                         *)
(* Embeddings are integer vectors whose norm is 5 or 10, so that           *)
(* 25 * cosine is an exact integer; every similarity below is in units of  *)
(* 1/25.  Embeddings are non-zero (cos_sim of a zero vector is NaN, which  *)
(* the CLIP projection heads never produce).                               *)
(***************************************************************************)
EXTENDS Integers, Sequences, FiniteSets, TLC

\* ---------------------------------------------------------------- bounds
\* Longest catalog handed to processSearchableItems in the session model.
MaxItems == 2
\* Longest embedded catalog handed to findBestMatches in the ranking model.
MaxCatalog == 3
\* Largest top_k tried in the ranking model.
MaxTopK == 4
\* Most negative top_k tried in the ranking model is -MinTopK.
MinTopK == 2

\* ------------------------------------------------------- program constants
\* runDemo always asks for the top 3.
DemoTopK == 3

\* -------------------------------------------------------------- data
NoField == ""
Texts == {"t1", "t2"}
Images == {"i1", "i2"}
queries == <<"A pet animal", "A bird in nature", "An aquatic creature">>

NoEmbed == <<>>
Undefined == [type |-> "undefined", text_embed |-> NoEmbed, image_embed |-> NoEmbed]
EmptySlot == [type |-> "empty", text_embed |-> NoEmbed, image_embed |-> NoEmbed]
NoError == [name |-> "none", at |-> "none", index |-> 0]

SeqsUpTo(S, n) == UNION {[1..k -> S] : k \in 0..n}

\* A catalog entry: text and image are optional; "" stands for a missing
\* (falsy) field.
CatalogItems == [text : {NoField} \cup Texts, image : {NoField} \cup Images]

\* ---------------------------------------------------- embedding providers
\* The value text_model resolves with for a text (when it resolves).
TextEmbedding(text) ==
    CASE text = "t1" -> <<5, 0>>
      [] text = "t2" -> <<6, 8>>
      [] text = "A pet animal" -> <<4, 3>>
      [] text = "A bird in nature" -> <<0, 5>>
      [] OTHER -> <<-4, 3>>

\* The value vision_model resolves with for an image (when it resolves).
ImageEmbedding(image) ==
    CASE image = "i1" -> <<3, 4>>
      [] OTHER -> <<-4, 3>>

TextVecs == {TextEmbedding(t) : t \in Texts}
ImageVecs == {ImageEmbedding(i) : i \in Images}
QueryVecs == {TextEmbedding(queries[j]) : j \in 1..Len(queries)}

\* Embedded items as processSearchableItems builds them.
EmbeddedItems ==
    [type : {"both"}, text_embed : TextVecs, image_embed : ImageVecs]
    \cup [type : {"text"}, text_embed : TextVecs, image_embed : {NoEmbed}]
    \cup [type : {"image"}, text_embed : {NoEmbed}, image_embed : ImageVecs]

\* ------------------------------------------------------------ cos_sim
Dot(a, b) == a[1] * b[1] + a[2] * b[2]

Norm(a) == CHOOSE n \in 0..20 : n * n = Dot(a, a)

\* cos_sim(a, b) = dot(a, b) / (|a| |b|), here times 25.
cos_sim(a, b) == (25 * Dot(a, b)) \div (Norm(a) * Norm(b))

MathMax(x, y) == IF x >= y THEN x ELSE y

\* -------------------------------------------------------- findBestMatches
ScoreMin(query_embed, item) ==
    IF item.type = "both"
    THEN LET t == cos_sim(query_embed, item.text_embed)
             i == cos_sim(query_embed, item.image_embed)
         IN IF t <= i THEN t ELSE i
    ELSE IF item.type = "text"
    THEN cos_sim(query_embed, item.text_embed)
    ELSE cos_sim(query_embed, item.image_embed)

\* The callback of item_embeds.map: one similarity per embedded item.
Score(query_embed, item) ==
    IF item.type = "both"
    THEN MathMax(cos_sim(query_embed, item.text_embed),
                 cos_sim(query_embed, item.image_embed))
    ELSE IF item.type = "text"
    THEN cos_sim(query_embed, item.text_embed)
    ELSE cos_sim(query_embed, item.image_embed)

Similarities(query_embed, embeds) ==
    [i \in 1..Len(embeds) |-> Score(query_embed, embeds[i])]

WithIndexFromOne(sims) ==
    [i \in 1..Len(sims) |-> [index |-> i, similarity |-> sims[i]]]

\* .map((similarity, index) => ({ index, similarity })): indices from 0.
WithIndex(sims) ==
    [i \in 1..Len(sims) |-> [index |-> i - 1, similarity |-> sims[i]]]

CompareAscending(a, b) == a.similarity - b.similarity

\* The comparator handed to sort: negative when a goes before b.
Compare(a, b) == b.similarity - a.similarity

InsertBeforeEqual(sorted, x) ==
    LET before == {p \in 1..Len(sorted) : Compare(sorted[p], x) < 0}
        n == Cardinality(before)
    IN SubSeq(sorted, 1, n) \o <<x>> \o SubSeq(sorted, n + 1, Len(sorted))

\* One step of a stable sort: x, which came later in the array than every
\* element of sorted, goes after every element that does not compare
\* greater than it.
Insert(sorted, x) ==
    LET before == {p \in 1..Len(sorted) : Compare(sorted[p], x) <= 0}
        n == Cardinality(before)
    IN SubSeq(sorted, 1, n) \o <<x>> \o SubSeq(sorted, n + 1, Len(sorted))

RECURSIVE SortPrefix(_, _)
SortPrefix(arr, n) ==
    IF n = 0 THEN <<>> ELSE Insert(SortPrefix(arr, n - 1), arr[n])

\* Array.prototype.sort with the comparator above (stable).
Sort(arr) == SortPrefix(arr, Len(arr))

SliceOneShort(arr, end) ==
    LET len == Len(arr)
        e == IF end < 0 THEN (IF len + end < 0 THEN 0 ELSE len + end)
             ELSE (IF end > len THEN len ELSE end)
    IN SubSeq(arr, 1, e - 1)

\* Array.prototype.slice(0, end): a negative end counts from the back.
Slice(arr, end) ==
    LET len == Len(arr)
        e == IF end < 0 THEN (IF len + end < 0 THEN 0 ELSE len + end)
             ELSE (IF end > len THEN len ELSE end)
    IN SubSeq(arr, 1, e)

\* An entry that is no embedded item (undefined) has no type to read:
\* the callback throws a TypeError.
Throws(embeds) ==
    \E i \in 1..Len(embeds) : embeds[i].type \notin {"both", "text", "image"}

findBestMatches(query_embed, embeds, k) ==
    Slice(Sort(WithIndex(Similarities(query_embed, embeds))), k)

\* ------------------------------------------------------- generateResultHTML
\* One rendered block per query: a row per match with the catalog entry the
\* match's index names and the match's similarity.
generateResultHTML(query, catalog, ms) ==
    [kind |-> "result", query |-> query,
     rows |-> [p \in 1..Len(ms) |->
                 [item |-> catalog[ms[p].index + 1],
                  similarity |-> ms[p].similarity]]]

\* The line the catch block of runDemo appends.
ErrorLine == [kind |-> "error", query |-> "", rows |-> <<>>]

\* ------------------------------------------------- processSearchableItems
\* Which branch of the per-item callback an item takes.
Branch(item) ==
    IF item.text # NoField /\ item.image # NoField THEN "both"
    ELSE IF item.text # NoField THEN "text"
    ELSE IF item.image # NoField THEN "image"
    ELSE "none"

\* The per-item async callback run up to its first await.
StartTask(item) ==
    [branch |-> Branch(item),
     pc |-> IF Branch(item) \in {"both", "text"} THEN "awaitText"
            ELSE IF Branch(item) = "image" THEN "awaitImage"
            ELSE "fallThrough",
     text_embed |-> NoEmbed]

StoreInCompletionOrder(vals, i, v) ==
    LET free == {j \in 1..Len(vals) : vals[j].type = "empty"}
        first == CHOOSE j \in free : \A l \in free : j <= l
    IN [vals EXCEPT ![first] = v]

\* Promise.all keeps the value of the i-th promise at position i.
PromiseAllStore(vals, i, v) == [vals EXCEPT ![i] = v]

AllSettledState(tasks) ==
    IF \A i \in 1..Len(tasks) : tasks[i].pc \in {"fulfilled", "rejected"}
    THEN "fulfilled"
    ELSE "pending"

\* Promise.all rejects with the first rejection and fulfils once every
\* promise has fulfilled.
PromiseAllState(tasks) ==
    IF \E i \in 1..Len(tasks) : tasks[i].pc = "rejected" THEN "rejected"
    ELSE IF \A i \in 1..Len(tasks) : tasks[i].pc = "fulfilled" THEN "fulfilled"
    ELSE "pending"

\* ------------------------------------------------------------------ state
VARIABLES
    items,          \* searchableItems
    task,           \* the per-item async callbacks started by items.map
    values,         \* the result array Promise.all is filling
    settled,        \* indices of the callbacks in the order they settled
    awaited,        \* how the await of processSearchableItems resumed
    item_embeds,    \* the embedded catalog
    pc,             \* where runDemo (or the caller of findBestMatches) is
    qi,             \* 1-based position of the query loop in queries
    query_embed,    \* findBestMatches' first argument
    top_k,          \* findBestMatches' third argument
    similarities,   \* findBestMatches' local array of scores
    matches,        \* what findBestMatches returned last
    output,         \* the blocks appended to output.innerHTML
    error,          \* the error runDemo caught
    rankCalls       \* invocations of findBestMatches

vars == <<items, task, values, settled, awaited, item_embeds, pc, qi,
          query_embed, top_k, similarities, matches, output, error, rankCalls>>

\* ------------------------------------------------------------- runDemo
Init ==
    /\ items \in SeqsUpTo(CatalogItems, MaxItems)
    /\ task = <<>>
    /\ values = <<>>
    /\ settled = <<>>
    /\ awaited = "pending"
    /\ item_embeds = <<>>
    /\ pc = "loadModels"
    /\ qi = 0
    /\ query_embed = NoEmbed
    /\ top_k = DemoTopK
    /\ similarities = <<>>
    /\ matches = <<>>
    /\ output = <<>>
    /\ error = NoError
    /\ rankCalls = 0

\* loadModels resolved: runDemo goes on to call processSearchableItems,
\* whose items.map starts every callback before the array of promises is
\* handed to Promise.all.
LoadModelsResolved ==
    /\ pc = "loadModels"
    /\ task' = [i \in 1..Len(items) |-> StartTask(items[i])]
    /\ values' = [i \in 1..Len(items) |-> EmptySlot]
    /\ pc' = "awaitItems"
    /\ UNCHANGED <<items, settled, awaited, item_embeds, qi, query_embed, top_k,
                   similarities, matches, output, error, rankCalls>>

\* loadModels rejected: the catch block reports it.
LoadModelsRejected ==
    /\ pc = "loadModels"
    /\ pc' = "done"
    /\ error' = [name |-> "ProviderError", at |-> "models", index |-> 0]
    /\ output' = Append(output, ErrorLine)
    /\ UNCHANGED <<items, task, values, settled, awaited, item_embeds, qi,
                   query_embed, top_k, similarities, matches, rankCalls>>

TaskUnchanged == UNCHANGED <<items, awaited, item_embeds, pc, qi, query_embed,
                             top_k, similarities, matches, output, error, rankCalls>>

\* getTextEmbedding resolved for item i.
TextResolved(i) ==
    /\ task[i].pc = "awaitText"
    /\ IF task[i].branch = "both"
       THEN /\ task' = [task EXCEPT ![i].pc = "awaitImage",
                                    ![i].text_embed = TextEmbedding(items[i].text)]
            /\ UNCHANGED <<values, settled>>
       ELSE /\ task' = [task EXCEPT ![i].pc = "fulfilled"]
            /\ values' = PromiseAllStore(values, i,
                            [type |-> "text",
                             text_embed |-> TextEmbedding(items[i].text),
                             image_embed |-> NoEmbed])
            /\ settled' = Append(settled, i)
    /\ TaskUnchanged

\* getTextEmbedding rejected for item i: the callback's promise rejects.
TextRejected(i) ==
    /\ task[i].pc = "awaitText"
    /\ task' = [task EXCEPT ![i].pc = "rejected"]
    /\ settled' = Append(settled, i)
    /\ UNCHANGED values
    /\ TaskUnchanged

\* getImageEmbedding resolved for item i.
ImageResolved(i) ==
    /\ task[i].pc = "awaitImage"
    /\ task' = [task EXCEPT ![i].pc = "fulfilled"]
    /\ values' = PromiseAllStore(values, i,
                    IF task[i].branch = "both"
                    THEN [type |-> "both",
                          text_embed |-> task[i].text_embed,
                          image_embed |-> ImageEmbedding(items[i].image)]
                    ELSE [type |-> "image",
                          text_embed |-> NoEmbed,
                          image_embed |-> ImageEmbedding(items[i].image)])
    /\ settled' = Append(settled, i)
    /\ TaskUnchanged

\* getImageEmbedding rejected for item i.
ImageRejected(i) ==
    /\ task[i].pc = "awaitImage"
    /\ task' = [task EXCEPT ![i].pc = "rejected"]
    /\ settled' = Append(settled, i)
    /\ UNCHANGED values
    /\ TaskUnchanged

\* An item with neither field takes no branch: the callback returns
\* undefined and its promise fulfils with it.
FallThrough(i) ==
    /\ task[i].pc = "fallThrough"
    /\ task' = [task EXCEPT ![i].pc = "fulfilled"]
    /\ values' = PromiseAllStore(values, i, Undefined)
    /\ settled' = Append(settled, i)
    /\ TaskUnchanged

\* The loop of runDemo moves to the next query, or runDemo returns.
NextQuery(q) == IF q > Len(queries) THEN "done" ELSE "awaitQuery"

\* The await of processSearchableItems resumes with the array.
AwaitItemsFulfilled ==
    /\ pc = "awaitItems"
    /\ PromiseAllState(task) = "fulfilled"
    /\ awaited' = "fulfilled"
    /\ item_embeds' = values
    /\ qi' = 1
    /\ pc' = NextQuery(1)
    /\ UNCHANGED <<items, task, values, settled, query_embed, top_k,
                   similarities, matches, output, error, rankCalls>>

\* The await of processSearchableItems throws: the catch block reports it.
AwaitItemsRejected ==
    /\ pc = "awaitItems"
    /\ PromiseAllState(task) = "rejected"
    /\ awaited' = "rejected"
    /\ pc' = "done"
    /\ error' = [name |-> "ProviderError", at |-> "items", index |-> 0]
    /\ output' = Append(output, ErrorLine)
    /\ UNCHANGED <<items, task, values, settled, item_embeds, qi, query_embed,
                   top_k, similarities, matches, rankCalls>>

\* getTextEmbedding resolved for the query: rank, render, go on.
QueryResolved ==
    /\ pc = "awaitQuery"
    /\ query_embed' = TextEmbedding(queries[qi])
    /\ rankCalls' = rankCalls + 1
    /\ IF Throws(item_embeds)
       THEN /\ pc' = "done"
            /\ error' = [name |-> "TypeError", at |-> "rank", index |-> qi]
            /\ output' = Append(output, ErrorLine)
            /\ UNCHANGED <<similarities, matches, qi>>
       ELSE /\ similarities' = Similarities(TextEmbedding(queries[qi]), item_embeds)
            /\ matches' = findBestMatches(TextEmbedding(queries[qi]), item_embeds, top_k)
            /\ output' = Append(output,
                            generateResultHTML(queries[qi], items,
                                findBestMatches(TextEmbedding(queries[qi]),
                                                item_embeds, top_k)))
            /\ qi' = qi + 1
            /\ pc' = NextQuery(qi + 1)
            /\ UNCHANGED error
    /\ UNCHANGED <<items, task, values, settled, awaited, item_embeds, top_k>>

\* getTextEmbedding rejected for the query: the throw leaves the loop.
QueryRejected ==
    /\ pc = "awaitQuery"
    /\ pc' = "done"
    /\ error' = [name |-> "ProviderError", at |-> "query", index |-> qi]
    /\ output' = Append(output, ErrorLine)
    /\ UNCHANGED <<items, task, values, settled, awaited, item_embeds, qi,
                   query_embed, top_k, similarities, matches, rankCalls>>

Next ==
    \/ LoadModelsResolved
    \/ LoadModelsRejected
    \/ \E i \in 1..Len(task) : TextResolved(i)
    \/ \E i \in 1..Len(task) : TextRejected(i)
    \/ \E i \in 1..Len(task) : ImageResolved(i)
    \/ \E i \in 1..Len(task) : ImageRejected(i)
    \/ \E i \in 1..Len(task) : FallThrough(i)
    \/ AwaitItemsFulfilled
    \/ AwaitItemsRejected
    \/ QueryResolved
    \/ QueryRejected

Spec == Init /\ [][Next]_vars

\* ------------------------------------------- findBestMatches on its own
\* Any embedded catalog, any query embedding, any top_k.
InitRank ==
    /\ items = <<>>
    /\ task = <<>>
    /\ values = <<>>
    /\ settled = <<>>
    /\ awaited = "fulfilled"
    /\ item_embeds \in SeqsUpTo(EmbeddedItems, MaxCatalog)
    /\ pc = "rank"
    /\ qi = 0
    /\ query_embed = NoEmbed
    /\ top_k = DemoTopK
    /\ similarities = <<>>
    /\ matches = <<>>
    /\ output = <<>>
    /\ error = NoError
    /\ rankCalls = 0

\* One call findBestMatches(q, item_embeds, k).
Rank(q, k) ==
    /\ pc = "rank"
    /\ query_embed' = q
    /\ top_k' = k
    /\ similarities' = Similarities(q, item_embeds)
    /\ matches' = findBestMatches(q, item_embeds, k)
    /\ pc' = "returned"
    /\ UNCHANGED <<items, task, values, settled, awaited, item_embeds, qi,
                   output, error, rankCalls>>

NextRank == \E q \in QueryVecs, k \in (0 - MinTopK)..MaxTopK : Rank(q, k)

SpecRank == InitRank /\ [][NextRank]_vars

\* =================================================================
\* Properties
\* =================================================================
Min(x, y) == IF x <= y THEN x ELSE y

\* What the callback of processSearchableItems computes from one item.
EmbeddedFrom(item) ==
    IF item.text # NoField /\ item.image # NoField
    THEN [type |-> "both", text_embed |-> TextEmbedding(item.text),
          image_embed |-> ImageEmbedding(item.image)]
    ELSE IF item.text # NoField
    THEN [type |-> "text", text_embed |-> TextEmbedding(item.text),
          image_embed |-> NoEmbed]
    ELSE IF item.image # NoField
    THEN [type |-> "image", text_embed |-> NoEmbed,
          image_embed |-> ImageEmbedding(item.image)]
    ELSE Undefined

HasInvalidItem == \E i \in 1..Len(items) : items[i].text = NoField /\ items[i].image = NoField

Returned == pc = "returned"

MatchIndices == {matches[p].index : p \in 1..Len(matches)}

\* C1: when the promise of processSearchableItems fulfils, whatever the
\* order in which the per-item tasks completed, the result has the length
\* of items and result[i] is the embedded item computed from items[i].
ThmC1_IndexCorrespondence ==
    awaited = "fulfilled" =>
        /\ Len(item_embeds) = Len(items)
        /\ \A i \in 1..Len(items) : item_embeds[i] = EmbeddedFrom(items[i])

\* Two different items whose tasks completed in the reverse of input order.
WitC1_ReverseCompletion ==
    /\ awaited = "fulfilled"
    /\ Len(items) = 2
    /\ settled = <<2, 1>>
    /\ EmbeddedFrom(items[1]) # EmbeddedFrom(items[2])
    /\ Branch(items[1]) = "both"

\* C2: the score of an item is the cosine with its text embedding for kind
\* text, with its image embedding for kind image, and for kind both the
\* larger of the two: one of them, and at least each of them.
ThmC2_ScorePerKind ==
    Returned =>
        /\ Len(similarities) = Len(item_embeds)
        /\ \A i \in 1..Len(item_embeds) :
             LET it == item_embeds[i]
                 s == similarities[i]
             IN /\ it.type = "text" => s = cos_sim(query_embed, it.text_embed)
                /\ it.type = "image" => s = cos_sim(query_embed, it.image_embed)
                /\ it.type = "both" =>
                     /\ s >= cos_sim(query_embed, it.text_embed)
                     /\ s >= cos_sim(query_embed, it.image_embed)
                     /\ s \in {cos_sim(query_embed, it.text_embed),
                               cos_sim(query_embed, it.image_embed)}

\* A scored catalog holding all three kinds, the item of kind both with
\* its image the better match.
WitC2_AllKinds ==
    /\ Returned
    /\ Len(item_embeds) = 3
    /\ item_embeds[1].type = "both"
    /\ cos_sim(query_embed, item_embeds[1].text_embed)
         < cos_sim(query_embed, item_embeds[1].image_embed)
    /\ item_embeds[2].type = "text"
    /\ item_embeds[3].type = "image"

\* C3: for top_k > 0 the returned matches are in non-increasing order of
\* similarity.
ThmC3_SortedDescending ==
    (Returned /\ top_k > 0) =>
        \A p \in 1..(Len(matches) - 1) :
            matches[p].similarity >= matches[p + 1].similarity

\* Three matches returned, strictly decreasing, from a catalog that was in
\* increasing order of score.
WitC3_Reordered ==
    /\ Returned
    /\ top_k > 0
    /\ Len(matches) = 3
    /\ matches[1].similarity > matches[2].similarity
    /\ matches[2].similarity > matches[3].similarity
    /\ similarities[1] < similarities[2]
    /\ similarities[2] < similarities[3]

\* C4: among returned matches of equal similarity the smaller catalog
\* index comes first, and an item left out by the cut never has the
\* similarity of a returned match with a larger index.
ThmC4_TieBreakByIndex ==
    Returned =>
        /\ \A p, r \in 1..Len(matches) :
             (p < r /\ matches[p].similarity = matches[r].similarity)
                 => matches[p].index < matches[r].index
        /\ \A j \in 0..(Len(item_embeds) - 1) : \A p \in 1..Len(matches) :
             (j \notin MatchIndices /\ similarities[j + 1] = matches[p].similarity)
                 => matches[p].index < j

\* Three items of one score, two of them returned and the third cut off.
WitC4_TieAcrossCut ==
    /\ Returned
    /\ top_k = 2
    /\ Len(item_embeds) = 3
    /\ similarities[1] = similarities[2]
    /\ similarities[2] = similarities[3]
    /\ Len(matches) = 2

\* C5: for top_k > 0 exactly min(top_k, len(catalog)) matches are
\* returned; none for an empty catalog.
ThmC5_Length ==
    (Returned /\ top_k > 0) =>
        Len(matches) = Min(top_k, Len(item_embeds))

\* A cut that drops part of the catalog.
WitC5_Cut ==
    /\ Returned
    /\ top_k = 2
    /\ Len(item_embeds) = 3
    /\ Len(matches) = 2

\* C6: a call with top_k = 0 or a negative top_k fails with
\* InvalidArgumentError and returns no match sequence.
ClaimC6_NonPositiveTopKFails ==
    (Returned /\ top_k <= 0) => error.name = "InvalidArgumentError"

\* C7: a catalog holding an item with neither text nor image never makes
\* processSearchableItems fulfil with an embedded catalog.
ClaimC7_InvalidItemHalts ==
    HasInvalidItem => awaited # "fulfilled"

\* C8: when runDemo has ended after the embedding of one query failed,
\* every later query of the list has been rendered.
ClaimC8_LaterQueriesRendered ==
    (pc = "done" /\ error.at = "query") =>
        \A k \in (error.index + 1)..Len(queries) :
            \E o \in 1..Len(output) :
                output[o].kind = "result" /\ output[o].query = queries[k]

\* C9: once any per-item embedding call has failed, findBestMatches has
\* not been and is never invoked, and no catalog, result or match is
\* published.
ThmC9_FailureAbortsSetup ==
    (\E i \in 1..Len(task) : task[i].pc = "rejected") =>
        /\ rankCalls = 0
        /\ awaited # "fulfilled"
        /\ item_embeds = <<>>
        /\ matches = <<>>
        /\ \A o \in 1..Len(output) : output[o].kind # "result"

\* One task failed after another had already fulfilled with its embedded
\* item, and runDemo has ended in its catch block.
WitC9_PartialThenAbort ==
    /\ Len(task) = 2
    /\ task[1].pc = "fulfilled"
    /\ task[2].pc = "rejected"
    /\ task[2].branch = "both"
    /\ task[2].text_embed # NoEmbed
    /\ pc = "done"
    /\ error.at = "items"

\* C10: for top_k > 0 the returned indices are pairwise distinct and lie
\* in 0..len(catalog)-1, and each match carries the score computed for
\* the item at its index.
ThmC10_IndicesValid ==
    (Returned /\ top_k > 0) =>
        /\ \A p, r \in 1..Len(matches) :
             p # r => matches[p].index # matches[r].index
        /\ \A p \in 1..Len(matches) :
             /\ matches[p].index \in 0..(Len(item_embeds) - 1)
             /\ matches[p].similarity = similarities[matches[p].index + 1]

\* The best match is the last item of a catalog of three.
WitC10_LastItemFirst ==
    /\ Returned
    /\ top_k > 0
    /\ Len(item_embeds) = 3
    /\ Len(matches) >= 2
    /\ matches[1].index = 2

====
